---- MODULE Spec2Model ----
(***************************************************************************)
(* Product catalogue and session carts of 03_python_fastapi_project        *)
(* (main.py, database.py).  The persistent store is the three tables       *)
(* products, carts and cart_items; every HTTP handler of main.py is one    *)
(* action that runs from its first query to its last commit, and resp      *)
(* holds the response of the request served last.                         *)
(*                                                                         *)
(* Row identifiers follow the store the tests run on (SQLite, INTEGER      *)
(* PRIMARY KEY without AUTOINCREMENT): a new row gets one more than the    *)
(* largest identifier in use in its table.  Prices are small integers,     *)
(* which Python floats represent exactly.                                  *)
(*                                                                         *)
(* Spec serves the requests one at a time.  The other specifications vary  *)
(* what is served and how: SpecCatalog the product endpoints with every    *)
(* shape of update payload, SpecStore the deletion of a cart through the   *)
(* models, SpecClock the passing of time (now), SpecRetry requests sent a  *)
(* second time, SpecAtomic requests that arrive together and are served    *)
(* each as one step, SpecRace and SpecDuplicates the statements of         *)
(* get_cart and add_to_cart interleaved (procs holds the requests in       *)
(* flight and the locals of their handlers).                               *)
(***************************************************************************)
EXTENDS Integers, Sequences, FiniteSets, TLC

VARIABLES products, carts, items, resp, now, procs

vars == <<products, carts, items, resp, now, procs>>

\* what a request handler that runs alone leaves as it is: the time it is
\* served at and the requests in flight
rest == <<now, procs>>

(* ------------------------------ bounds -------------------------------- *)

MaxProductId == 2
MaxCartId == 2
MaxItemId == 2
MaxQty == 2
MaxTime == 2
NumProcs == 2

(* ------------------------------ inputs -------------------------------- *)

None == "None"

\* session_id is a path parameter of type str: any text, the empty one too
SessionKeys == {"", "s1"}

ProductIds == 1..MaxProductId
ItemIds == 1..MaxItemId
CartIds == 1..MaxCartId

\* CartItemCreate.quantity and CartItemUpdate.quantity are plain ints
Quantities == (0 - 1)..MaxQty

\* ProductCreate payloads
ProductCreates ==
    { [name |-> "a", price |-> 1, description |-> None, stock |-> 0],
      [name |-> "b", price |-> 2, description |-> "d", stock |-> 1] }

\* ProductUpdate payloads: the fields that were set in the request
PriceUpdates == { [price |-> 2] }

\* ProductUpdate payloads of every shape: one field, several fields, none,
\* and a field set to null, which Optional[...] lets through
ProductUpdates ==
    { [price |-> 2],
      [name |-> "c"],
      [description |-> None, stock |-> 2],
      [name |-> None],
      [stock |-> None, price |-> 3],
      [f \in {} |-> None] }

ProductFields == {"name", "price", "description", "stock"}

(* ------------------------------ helpers ------------------------------- *)

Min(S) == CHOOSE x \in S : \A y \in S : x <= y

Max(S) == CHOOSE x \in S : \A y \in S : x >= y

\* Column(Integer, primary_key=True): the identifier the store gives a new row
NextId(table) == IF DOMAIN table = {} THEN 1 ELSE Max(DOMAIN table) + 1

Insert(table, id, row) == (id :> row) @@ table

DeleteAll(table, id) == [i \in {} |-> table[i]]

Delete(table, id) == [i \in DOMAIN table \ {id} |-> table[i]]

RECURSIVE SortedSeq(_)
\* the identifiers of S in the store's retrieval order (ascending rowid)
SortedSeq(S) == IF S = {} THEN <<>> ELSE <<Min(S)>> \o SortedSeq(S \ {Min(S)})

RECURSIVE sum(_)
\* Python's sum() over a list
sum(s) == IF s = <<>> THEN 0 ELSE Head(s) + sum(Tail(s))

\* select(Cart).filter(Cart.session_id == session_id)
CartsOf(session_id) == {c \in DOMAIN carts : carts[c].session_id = session_id}

LastCart(session_id) == Max(CartsOf(session_id))

\* result.first() of that query, when it has a row
FirstCart(session_id) == Min(CartsOf(session_id))

\* "get or create": the cart the handler goes on with, and the carts table
\* after the commit of a cart it had to create
ResolvedCart(session_id) ==
    IF CartsOf(session_id) = {} THEN NextId(carts) ELSE FirstCart(session_id)

\* Cart(session_id=session_id): created_at and updated_at take their
\* default, datetime.utcnow at the insert
NewCart(session_id) ==
    [session_id |-> session_id, created_at |-> now, updated_at |-> now]

CartsAlwaysCreated(session_id) == Insert(carts, NextId(carts), NewCart(session_id))

CartsAfterResolve(session_id) ==
    IF CartsOf(session_id) = {}
    THEN Insert(carts, NextId(carts), NewCart(session_id))
    ELSE carts

\* Cart.items: the rows of cart_items whose cart_id is the cart's
CartItemIds(cart_id) == {i \in DOMAIN items : items[i].cart_id = cart_id}

ExistingItemsSwapped(cart_id, product_id) ==
    {i \in DOMAIN items : items[i].cart_id = product_id /\ items[i].product_id = cart_id}

ExistingItemsAnyCart(cart_id, product_id) ==
    {i \in DOMAIN items : items[i].product_id = product_id}

\* select(CartItem).filter(CartItem.cart_id == ..., CartItem.product_id == ...)
ExistingItems(cart_id, product_id) ==
    {i \in DOMAIN items : items[i].cart_id = cart_id /\ items[i].product_id = product_id}

FindCartItemAnyCart(item_id, cart_id) == {i \in DOMAIN items : i = item_id}

\* select(CartItem).filter(CartItem.id == item_id, CartItem.cart_id == ...)
FindCartItem(item_id, cart_id) ==
    {i \in DOMAIN items : i = item_id /\ items[i].cart_id = cart_id}

ProductFoundAlways(product_id) == TRUE

\* "if not product": the product query of add_to_cart found a row
ProductFound(product_id) == product_id \in DOMAIN products

IncrementedQuantityOverwrites(old, quantity) == quantity

IncrementedQuantityFloored(old, quantity) ==
    IF old + quantity < 0 THEN 0 ELSE old + quantity

\* existing_item[0].quantity += item_data.quantity
IncrementedQuantity(old, quantity) == old + quantity

IsRemovalStrict(quantity) == quantity < 0

\* "if item_data.quantity <= 0" of update_cart_item
IsRemoval(quantity) == quantity <= 0

WithQuantityAdded(item_id, quantity) ==
    [items EXCEPT ![item_id].quantity = @ + quantity]

\* cart_item[0].quantity = item_data.quantity
WithQuantity(item_id, quantity) == [items EXCEPT ![item_id].quantity = quantity]

\* ProductDTO
ProductDTO(id) ==
    [id |-> id, name |-> products[id].name, price |-> products[id].price,
     description |-> products[id].description, stock |-> products[id].stock]

\* one element of "items" in the response of get_cart
ItemDTO(i) ==
    [id |-> i, product_id |-> items[i].product_id, quantity |-> items[i].quantity,
     product |-> ProductDTO(items[i].product_id)]

CartItemDTOs(cart_id) ==
    LET ids == SortedSeq(CartItemIds(cart_id))
    IN  [k \in 1..Len(ids) |-> ItemDTO(ids[k])]

\* total_items = sum(item.quantity for item in cart.items)
TotalItems(cart_id) ==
    LET ids == SortedSeq(CartItemIds(cart_id))
    IN  sum([k \in 1..Len(ids) |-> items[ids[k]].quantity])

TotalPriceUnweighted(cart_id) ==
    LET ids == SortedSeq(CartItemIds(cart_id))
    IN  sum([k \in 1..Len(ids) |-> products[items[ids[k]].product_id].price])

\* total_price = sum(item.quantity * item.product.price for item in cart.items)
TotalPrice(cart_id) ==
    LET ids == SortedSeq(CartItemIds(cart_id))
    IN  sum([k \in 1..Len(ids) |-> items[ids[k]].quantity * products[items[ids[k]].product_id].price])

\* item.product is None for an item whose product row is gone
HasDanglingItem(cart_id) ==
    \E i \in CartItemIds(cart_id) : items[i].product_id \notin DOMAIN products

(* ----------------------------- responses ------------------------------ *)

\* the JSON body, with the keys no endpoint filled left at their defaults
NoBody ==
    [cart_id |-> 0, session_id |-> None, items |-> <<>>, total_items |-> 0,
     total_price |-> 0, cart_item_id |-> 0, product |-> <<>>]

\* a response without a trace: status, detail of the HTTPException, body
Response(op, status, detail, body) ==
    [op |-> op, status |-> status, detail |-> detail, body |-> body,
     branch |-> None, item_id |-> 0]

\* the response of a handler that wrote to cart_items or deleted a product,
\* with the branch it took ("insert", "update", "set", "delete") and the
\* identifier of the row it wrote
Written(op, body, branch, item_id) ==
    [op |-> op, status |-> 200, detail |-> None, body |-> body,
     branch |-> branch, item_id |-> item_id]

(* ------------------------- requests in flight ------------------------- *)

\* the requests the event loop serves at the same time
Procs == 1..NumProcs

\* the session key, the product and the quantities of the requests served
\* concurrently
RaceKeys == {"s1"}
RaceProductIds == {1}
RaceProductCreates == { [name |-> "a", price |-> 1, description |-> None, stock |-> 0] }
RaceQuantities == {0, 1}

\* a request in flight: the statement it is at (pc), its arguments and the
\* locals of its handler (cart, existing_item and the quantity read with it)
Idle ==
    [pc |-> "idle", op |-> None, session_id |-> None, product_id |-> 0,
     quantity |-> 0, cart_id |-> 0, item_id |-> 0, seen |-> 0]

Free(p) == procs[p].pc = "idle"

\* the request of p is answered
Done(p) == [procs EXCEPT ![p] = Idle]

Goto(p, pc, fields) ==
    [procs EXCEPT ![p] = [f \in DOMAIN procs[p] |->
                             IF f = "pc" THEN pc
                             ELSE IF f \in DOMAIN fields THEN fields[f]
                             ELSE procs[p][f]]]

Begin(p, pc, fields) ==
    [procs EXCEPT ![p] = [f \in DOMAIN Idle |->
                             IF f = "pc" THEN pc
                             ELSE IF f \in DOMAIN fields THEN fields[f]
                             ELSE Idle[f]]]

(* ------------------------------- Init --------------------------------- *)

Init ==
    /\ products = <<>>
    /\ carts = <<>>
    /\ items = <<>>
    /\ resp = Response("start", 200, None, NoBody)
    /\ now = 0
    /\ procs = [p \in Procs |-> Idle]

(* -------------------------- product endpoints ------------------------- *)

\* POST /products/
create_product(product) ==
    LET id == NextId(products)
    IN  /\ id <= MaxProductId
        /\ products' = Insert(products, id, product)
        /\ resp' = Response("create_product", 200, None,
                            [NoBody EXCEPT !.product = <<[id |-> id] @@ product>>])
        /\ UNCHANGED <<carts, items>>

\* GET /products/{product_id}
get_product(product_id) ==
    /\ resp' = IF product_id \in DOMAIN products
               THEN Response("get_product", 200, None,
                             [NoBody EXCEPT !.product =
                                 <<[id |-> product_id] @@ products[product_id]>>])
               ELSE Response("get_product", 404, "Product not found", NoBody)
    /\ UNCHANGED <<products, carts, items>>

\* the columns of products declared nullable=False
NotNullColumns == {"name", "price", "stock"}

\* Python's "value is None", for a value of any type
IsNone(value) == ToString(value) = ToString(None)

\* the commit of a products row: a NULL in a NOT NULL column is refused
Storable(product) == \A f \in NotNullColumns : ~IsNone(product[f])

\* model_dump(exclude_unset=True) and the setattr loop
ApplyUpdate(product, update_data) ==
    [f \in ProductFields |-> IF f \in DOMAIN update_data THEN update_data[f] ELSE product[f]]

\* PUT /products/{product_id}
update_product(product_id, product_update) ==
    IF product_id \notin DOMAIN products
    THEN /\ resp' = Response("update_product", 404, "Product not found", NoBody)
         /\ UNCHANGED <<products, carts, items>>
    ELSE LET updated == ApplyUpdate(products[product_id], product_update)
         IN  IF Storable(updated)
             THEN /\ products' = [products EXCEPT ![product_id] = updated]
                  /\ resp' = Response("update_product", 200, None,
                                      [NoBody EXCEPT !.product =
                                          <<[id |-> product_id] @@ updated>>])
                  /\ UNCHANGED <<carts, items>>
             ELSE \* IntegrityError at db.commit(), not handled
                  /\ resp' = Response("update_product", 500, None, NoBody)
                  /\ UNCHANGED <<products, carts, items>>

ItemsWithoutProduct(product_id) ==
    [i \in {j \in DOMAIN items : items[j].product_id # product_id} |-> items[i]]

\* cart_items after db.delete(product): CartItem.product_id is a ForeignKey
\* without ondelete and Product has no relationship to its items, so the
\* rows that reference the product stay as they are
ItemsAfterProductDelete(product_id) == items

\* DELETE /products/{product_id}
delete_product(product_id) ==
    IF product_id \notin DOMAIN products
    THEN /\ resp' = Response("delete_product", 404,
                             "Product not found", NoBody)
         /\ UNCHANGED <<products, carts, items>>
    ELSE /\ products' = Delete(products, product_id)
         /\ items' = ItemsAfterProductDelete(product_id)
         /\ resp' = Written("delete_product", NoBody, "delete", product_id)
         /\ UNCHANGED carts

(* --------------------------- cart endpoints --------------------------- *)

\* GET /cart/{session_id}
get_cart(session_id) ==
    LET cart_id == ResolvedCart(session_id)
    IN  /\ cart_id <= MaxCartId
        /\ carts' = CartsAfterResolve(session_id)
        /\ resp' = IF HasDanglingItem(cart_id)
                   THEN Response("get_cart", 500, None, NoBody)
                   ELSE Response("get_cart", 200, None,
                                 [NoBody EXCEPT !.cart_id = cart_id,
                                                !.session_id = carts'[cart_id].session_id,
                                                !.items = CartItemDTOs(cart_id),
                                                !.total_items = TotalItems(cart_id),
                                                !.total_price = TotalPrice(cart_id)])
        /\ UNCHANGED <<products, items>>

CartsAfterAddRolledBack(session_id, product_id) ==
    IF ProductFound(product_id) THEN CartsAfterResolve(session_id) ELSE carts

\* the carts table after add_to_cart: the cart it had to create is committed
\* (line 233) before the product is looked up, and the 404 undoes nothing
CartsAfterAdd(session_id, product_id) == CartsAfterResolve(session_id)

\* POST /cart/{session_id}/items; a 404 records in branch whether the
\* request had created the cart
add_to_cart(session_id, product_id, quantity) ==
    LET cart_id == ResolvedCart(session_id)
        existing_item == ExistingItems(cart_id, product_id)
    IN  /\ cart_id <= MaxCartId
        /\ carts' = CartsAfterAdd(session_id, product_id)
        /\ IF ~ProductFound(product_id)
           THEN /\ resp' = [Response("add_to_cart", 404, "Product not found", NoBody)
                              EXCEPT !.branch = IF CartsOf(session_id) = {}
                                                THEN "create" ELSE None]
                /\ UNCHANGED items
           ELSE IF existing_item # {}
           THEN LET i == Min(existing_item)
                IN  /\ items[i].quantity + quantity \in Quantities
                    /\ items' = WithQuantity(i, IncrementedQuantity(items[i].quantity, quantity))
                    /\ resp' = Written("add_to_cart", [NoBody EXCEPT !.cart_item_id = i],
                                       "update", i)
           ELSE LET i == NextId(items)
                IN  /\ i <= MaxItemId
                    /\ items' = Insert(items, i, [cart_id |-> cart_id,
                                                  product_id |-> product_id,
                                                  quantity |-> quantity])
                    /\ resp' = Written("add_to_cart", [NoBody EXCEPT !.cart_item_id = i],
                                       "insert", i)
        /\ UNCHANGED products

\* PUT /cart/{session_id}/items/{item_id}
update_cart_item(session_id, item_id, quantity) ==
    IF CartsOf(session_id) = {}
    THEN /\ resp' = Response("update_cart_item", 404, "Cart not found", NoBody)
         /\ UNCHANGED <<products, carts, items>>
    ELSE IF FindCartItem(item_id, FirstCart(session_id)) = {}
    THEN /\ resp' = Response("update_cart_item", 404, "Cart item not found", NoBody)
         /\ UNCHANGED <<products, carts, items>>
    ELSE /\ items' = IF IsRemoval(quantity)
                     THEN Delete(items, item_id)
                     ELSE WithQuantity(item_id, quantity)
         /\ resp' = Written("update_cart_item", NoBody,
                            IF IsRemoval(quantity) THEN "delete" ELSE "set", item_id)
         /\ UNCHANGED <<products, carts>>

\* DELETE /cart/{session_id}/items/{item_id}
remove_from_cart(session_id, item_id) ==
    IF CartsOf(session_id) = {}
    THEN /\ resp' = Response("remove_from_cart", 404, "Cart not found", NoBody)
         /\ UNCHANGED <<products, carts, items>>
    ELSE IF FindCartItem(item_id, FirstCart(session_id)) = {}
    THEN /\ resp' = Response("remove_from_cart", 404, "Cart item not found", NoBody)
         /\ UNCHANGED <<products, carts, items>>
    ELSE /\ items' = Delete(items, item_id)
         /\ resp' = Written("remove_from_cart", NoBody, "delete", item_id)
         /\ UNCHANGED <<products, carts>>

(* ------------------- cart endpoints, statement by statement ----------- *)

\* GET /cart/{session_id}, the select of lines 168-173 and, when it found a
\* cart, the response
get_cart_select(p, session_id) ==
    /\ Free(p)
    /\ IF CartsOf(session_id) = {}
       THEN /\ procs' = Begin(p, "get_cart_create",
                              [op |-> "get_cart", session_id |-> session_id])
            /\ UNCHANGED resp
       ELSE LET cart_id == FirstCart(session_id)
            IN  /\ resp' = IF HasDanglingItem(cart_id)
                           THEN Response("get_cart", 500, None, NoBody)
                           ELSE Response("get_cart", 200, None,
                                         [NoBody EXCEPT !.cart_id = cart_id,
                                                        !.session_id = carts[cart_id].session_id,
                                                        !.items = CartItemDTOs(cart_id),
                                                        !.total_items = TotalItems(cart_id),
                                                        !.total_price = TotalPrice(cart_id)])
                /\ procs' = Done(p)
    /\ UNCHANGED <<products, carts, items, now>>

CartsAfterCreateUnique(session_id) ==
    IF CartsOf(session_id) = {}
    THEN Insert(carts, NextId(carts), NewCart(session_id))
    ELSE carts

\* db.add(Cart(session_id=session_id)); db.commit(): carts.session_id is
\* indexed but not unique, the insert is accepted whatever the table holds
CartsAfterCreate(session_id) == Insert(carts, NextId(carts), NewCart(session_id))

\* lines 175-180
get_cart_create(p) ==
    /\ procs[p].pc = "get_cart_create"
    /\ NextId(carts) <= MaxCartId
    /\ carts' = CartsAfterCreate(procs[p].session_id)
    /\ procs' = Goto(p, "get_cart_reload", [cart_id |-> NextId(carts)])
    /\ UNCHANGED <<products, items, resp, now>>

\* lines 182-188 and the response
get_cart_reload(p) ==
    /\ procs[p].pc = "get_cart_reload"
    /\ LET cart_id == procs[p].cart_id
       IN  /\ resp' = IF HasDanglingItem(cart_id)
                      THEN Response("get_cart", 500, None, NoBody)
                      ELSE Response("get_cart", 200, None,
                                    [NoBody EXCEPT !.cart_id = cart_id,
                                                   !.session_id = carts[cart_id].session_id,
                                                   !.items = CartItemDTOs(cart_id),
                                                   !.total_items = TotalItems(cart_id),
                                                   !.total_price = TotalPrice(cart_id)])
           /\ procs' = Done(p)
    /\ UNCHANGED <<products, carts, items, now>>

\* POST /cart/{session_id}/items, the select of lines 227-228
add_to_cart_select_cart(p, session_id, product_id, quantity) ==
    /\ Free(p)
    /\ procs' = IF CartsOf(session_id) = {}
                THEN Begin(p, "add_to_cart_create",
                           [op |-> "add_to_cart", session_id |-> session_id,
                            product_id |-> product_id, quantity |-> quantity])
                ELSE Begin(p, "add_to_cart_product",
                           [op |-> "add_to_cart", session_id |-> session_id,
                            product_id |-> product_id, quantity |-> quantity,
                            cart_id |-> FirstCart(session_id)])
    /\ UNCHANGED <<products, carts, items, resp, now>>

\* lines 230-234
add_to_cart_create(p) ==
    /\ procs[p].pc = "add_to_cart_create"
    /\ NextId(carts) <= MaxCartId
    /\ carts' = CartsAfterCreate(procs[p].session_id)
    /\ procs' = Goto(p, "add_to_cart_product", [cart_id |-> NextId(carts)])
    /\ UNCHANGED <<products, items, resp, now>>

\* lines 239-242
add_to_cart_product(p) ==
    /\ procs[p].pc = "add_to_cart_product"
    /\ IF ProductFound(procs[p].product_id)
       THEN /\ procs' = Goto(p, "add_to_cart_existing", <<>>)
            /\ UNCHANGED resp
       ELSE /\ resp' = Response("add_to_cart", 404, "Product not found", NoBody)
            /\ procs' = Done(p)
    /\ UNCHANGED <<products, carts, items, now>>

\* lines 245-251: existing_item and the quantity loaded with it
add_to_cart_existing(p) ==
    /\ procs[p].pc = "add_to_cart_existing"
    /\ LET existing_item == ExistingItems(procs[p].cart_id, procs[p].product_id)
       IN  procs' = IF existing_item = {}
                    THEN Goto(p, "add_to_cart_commit", <<>>)
                    ELSE Goto(p, "add_to_cart_commit",
                              [item_id |-> Min(existing_item),
                               seen |-> items[Min(existing_item)].quantity])
    /\ UNCHANGED <<products, carts, items, resp, now>>

QuantityIncrementedInStore(p) ==
    IncrementedQuantity(items[procs[p].item_id].quantity, procs[p].quantity)

\* existing_item[0].quantity += item_data.quantity on the loaded object:
\* the UPDATE sets the quantity read at the select plus the supplied one
QuantityWritten(p) == IncrementedQuantity(procs[p].seen, procs[p].quantity)

\* lines 253-269
add_to_cart_commit(p) ==
    /\ procs[p].pc = "add_to_cart_commit"
    /\ IF procs[p].item_id # 0
       THEN IF procs[p].item_id \in DOMAIN items
            THEN /\ QuantityWritten(p) \in Quantities
                 /\ items' = WithQuantity(procs[p].item_id, QuantityWritten(p))
                 /\ resp' = Written("add_to_cart",
                                    [NoBody EXCEPT !.cart_item_id = procs[p].item_id],
                                    "update", procs[p].item_id)
                 /\ procs' = Done(p)
            ELSE \* the row is gone: the UPDATE matches no row, StaleDataError
                 /\ resp' = Response("add_to_cart", 500, None, NoBody)
                 /\ procs' = Done(p)
                 /\ UNCHANGED items
       ELSE LET i == NextId(items)
            IN  /\ i <= MaxItemId
                /\ items' = Insert(items, i, [cart_id |-> procs[p].cart_id,
                                              product_id |-> procs[p].product_id,
                                              quantity |-> procs[p].quantity])
                /\ resp' = Written("add_to_cart", [NoBody EXCEPT !.cart_item_id = i],
                                   "insert", i)
                /\ procs' = Done(p)
    /\ UNCHANGED <<products, carts, now>>

(* --------------- add_to_cart requests served as one step -------------- *)

\* a POST /cart/{session_id}/items for a product of the catalogue has
\* arrived and waits to be served
add_to_cart_request(p, session_id, product_id, quantity) ==
    /\ Free(p)
    /\ ProductFound(product_id)
    /\ procs' = Begin(p, "add_to_cart_pending",
                      [op |-> "add_to_cart", session_id |-> session_id,
                       product_id |-> product_id, quantity |-> quantity])
    /\ UNCHANGED <<products, carts, items, resp, now>>

\* the handler runs from its first statement to its last commit with no
\* statement of another request in between; the request stays on record
add_to_cart_serve(p) ==
    /\ procs[p].pc = "add_to_cart_pending"
    /\ add_to_cart(procs[p].session_id, procs[p].product_id, procs[p].quantity)
    /\ procs' = Goto(p, "answered", <<>>)
    /\ UNCHANGED now

(* ----------------------- requests sent a second time ------------------ *)

\* the cart requests a client can send
CartRequests ==
    {[Idle EXCEPT !.op = "get_cart", !.session_id = session_id] :
        session_id \in SessionKeys}
    \cup {[Idle EXCEPT !.op = "add_to_cart", !.session_id = session_id,
                       !.product_id = product_id, !.quantity = quantity] :
             session_id \in SessionKeys, product_id \in ProductIds,
             quantity \in Quantities}
    \cup {[Idle EXCEPT !.op = "update_cart_item", !.session_id = session_id,
                       !.item_id = item_id, !.quantity = quantity] :
             session_id \in SessionKeys, item_id \in ItemIds, quantity \in Quantities}
    \cup {[Idle EXCEPT !.op = "remove_from_cart", !.session_id = session_id,
                       !.item_id = item_id] :
             session_id \in SessionKeys, item_id \in ItemIds}

\* the handler the route of the request leads to
Serve(request) ==
    \/ /\ request.op = "get_cart"
       /\ get_cart(request.session_id)
    \/ /\ request.op = "add_to_cart"
       /\ add_to_cart(request.session_id, request.product_id, request.quantity)
    \/ /\ request.op = "update_cart_item"
       /\ update_cart_item(request.session_id, request.item_id, request.quantity)
    \/ /\ request.op = "remove_from_cart"
       /\ remove_from_cart(request.session_id, request.item_id)

\* a request is served while no other is on record, in the first slot; the
\* client keeps it
request_first(p, request) ==
    /\ \A q \in Procs : Free(q)
    /\ p = Min(Procs)
    /\ Serve(request)
    /\ procs' = [procs EXCEPT ![p] = [request EXCEPT !.pc = "answered"]]
    /\ UNCHANGED now

\* the client sends the request it kept once more, with the same arguments,
\* and it is served next
request_retry(p) ==
    /\ procs[p].pc = "answered"
    /\ Serve(procs[p])
    /\ procs' = Goto(p, "retried", <<>>)
    /\ UNCHANGED now

\* the client does not send it again
request_forget(p) ==
    /\ procs[p].pc \in {"answered", "retried"}
    /\ procs' = Done(p)
    /\ UNCHANGED <<products, carts, items, resp, now>>

(* --------------------------- store operation -------------------------- *)

ItemsOrphaned(cart_id) == items

\* Cart.items = relationship("CartItem", cascade="all, delete-orphan"):
\* cart_items after the session deleted the cart
ItemsAfterCartDelete(cart_id) ==
    [i \in {j \in DOMAIN items : items[j].cart_id # cart_id} |-> items[i]]

\* db.delete(cart); db.commit() on a stored cart.  No route of main.py does
\* this; it is the store operation test_database.py performs on the models,
\* recorded in resp with the identifier of the cart
delete_cart(cart_id) ==
    /\ cart_id \in DOMAIN carts
    /\ carts' = Delete(carts, cart_id)
    /\ items' = ItemsAfterCartDelete(cart_id)
    /\ resp' = Written("delete_cart", NoBody, "delete", cart_id)
    /\ UNCHANGED products

(* ---------------------------- specification --------------------------- *)

Next ==
    \/ \E product \in ProductCreates : create_product(product)
          /\ UNCHANGED rest
    \/ \E product_id \in ProductIds : get_product(product_id)
          /\ UNCHANGED rest
    \/ \E product_id \in ProductIds, product_update \in PriceUpdates :
          update_product(product_id, product_update)
          /\ UNCHANGED rest
    \/ \E product_id \in ProductIds : delete_product(product_id)
          /\ UNCHANGED rest
    \/ \E session_id \in SessionKeys : get_cart(session_id)
          /\ UNCHANGED rest
    \/ \E session_id \in SessionKeys, product_id \in ProductIds, quantity \in Quantities :
          add_to_cart(session_id, product_id, quantity)
          /\ UNCHANGED rest
    \/ \E session_id \in SessionKeys, item_id \in ItemIds, quantity \in Quantities :
          update_cart_item(session_id, item_id, quantity)
          /\ UNCHANGED rest
    \/ \E session_id \in SessionKeys, item_id \in ItemIds : remove_from_cart(session_id, item_id)
          /\ UNCHANGED rest

Spec == Init /\ [][Next]_vars

\* the product endpoints alone, with ProductUpdate payloads of every shape
NextCatalog ==
    \/ \E product \in ProductCreates : create_product(product)
          /\ UNCHANGED rest
    \/ \E product_id \in ProductIds : get_product(product_id)
          /\ UNCHANGED rest
    \/ \E product_id \in ProductIds, product_update \in ProductUpdates :
          update_product(product_id, product_update)
          /\ UNCHANGED rest
    \/ \E product_id \in ProductIds : delete_product(product_id)
          /\ UNCHANGED rest

SpecCatalog == Init /\ [][NextCatalog]_vars

\* carts filled through the routes and deleted through the models
NextStore ==
    \/ \E product \in ProductCreates : create_product(product)
          /\ UNCHANGED rest
    \/ \E session_id \in SessionKeys : get_cart(session_id)
          /\ UNCHANGED rest
    \/ \E session_id \in SessionKeys, product_id \in ProductIds, quantity \in Quantities :
          add_to_cart(session_id, product_id, quantity)
          /\ UNCHANGED rest
    \/ \E cart_id \in CartIds : delete_cart(cart_id)
          /\ UNCHANGED rest

SpecStore == Init /\ [][NextStore]_vars

\* get_cart and add_to_cart requests served concurrently, statement by
\* statement, among remove_from_cart requests
NextRace ==
    \/ \E product \in RaceProductCreates : create_product(product)
          /\ UNCHANGED rest
    \/ \E p \in Procs, session_id \in RaceKeys : get_cart_select(p, session_id)
    \/ \E p \in Procs : get_cart_create(p)
    \/ \E p \in Procs : get_cart_reload(p)
    \/ \E p \in Procs, session_id \in RaceKeys, product_id \in RaceProductIds,
          quantity \in RaceQuantities :
          add_to_cart_select_cart(p, session_id, product_id, quantity)
    \/ \E p \in Procs : add_to_cart_create(p)
    \/ \E p \in Procs : add_to_cart_product(p)
    \/ \E p \in Procs : add_to_cart_existing(p)
    \/ \E p \in Procs : add_to_cart_commit(p)
    \/ \E session_id \in RaceKeys, item_id \in ItemIds : remove_from_cart(session_id, item_id)
          /\ UNCHANGED rest

SpecRace == Init /\ [][NextRace]_vars

\* add_to_cart requests that arrive together and are served in any order,
\* each as one step
NextAtomic ==
    \/ \E product \in ProductCreates : create_product(product)
          /\ UNCHANGED rest
    \/ \E p \in Procs, session_id \in SessionKeys, product_id \in ProductIds,
          quantity \in RaceQuantities :
          add_to_cart_request(p, session_id, product_id, quantity)
    \/ \E p \in Procs : add_to_cart_serve(p)

SpecAtomic == Init /\ [][NextAtomic]_vars

\* cart requests served one at a time, each possibly sent a second time,
\* over a catalogue that changes between them
NextRetry ==
    \/ \E product \in ProductCreates : create_product(product)
          /\ \A q \in Procs : Free(q)
          /\ UNCHANGED rest
    \/ \E product_id \in ProductIds : delete_product(product_id)
          /\ \A q \in Procs : Free(q)
          /\ UNCHANGED rest
    \/ \E p \in Procs, request \in CartRequests : request_first(p, request)
    \/ \E p \in Procs : request_retry(p)
    \/ \E p \in Procs : request_forget(p)

SpecRetry == Init /\ [][NextRetry]_vars

\* the store with several carts of one key: add_to_cart requests served
\* concurrently, statement by statement, which leave such carts and items in
\* them, and the cart endpoints served one request at a time
NextDuplicates ==
    \/ \E product \in RaceProductCreates : create_product(product)
          /\ UNCHANGED rest
    \/ \E p \in Procs, session_id \in RaceKeys, product_id \in RaceProductIds :
          add_to_cart_select_cart(p, session_id, product_id, 1)
    \/ \E p \in Procs : add_to_cart_create(p)
    \/ \E p \in Procs : add_to_cart_product(p)
    \/ \E p \in Procs : add_to_cart_existing(p)
    \/ \E p \in Procs : add_to_cart_commit(p)
    \/ \E session_id \in RaceKeys : get_cart(session_id)
          /\ UNCHANGED rest
    \/ \E session_id \in RaceKeys, product_id \in RaceProductIds,
          quantity \in RaceQuantities :
          add_to_cart(session_id, product_id, quantity)
          /\ UNCHANGED rest
    \/ \E session_id \in RaceKeys, item_id \in ItemIds, quantity \in RaceQuantities :
          update_cart_item(session_id, item_id, quantity)
          /\ UNCHANGED rest
    \/ \E session_id \in RaceKeys, item_id \in ItemIds : remove_from_cart(session_id, item_id)
          /\ UNCHANGED rest

SpecDuplicates == Init /\ [][NextDuplicates]_vars

\* time passes between requests
Tick ==
    /\ now < MaxTime
    /\ now' = now + 1
    /\ UNCHANGED <<products, carts, items, resp, procs>>

\* carts filled through the routes while time passes
NextClock ==
    \/ Tick
    \/ \E product \in ProductCreates : create_product(product)
          /\ UNCHANGED rest
    \/ \E session_id \in SessionKeys : get_cart(session_id)
          /\ UNCHANGED rest
    \/ \E session_id \in SessionKeys, product_id \in ProductIds, quantity \in Quantities :
          add_to_cart(session_id, product_id, quantity)
          /\ UNCHANGED rest

SpecClock == Init /\ [][NextClock]_vars

(* ------------------------------- claims ------------------------------- *)

\* the carts a session key resolves to (one at most while requests run one at a time)
Resolves(session_id, c) == c \in DOMAIN carts /\ carts[c].session_id = session_id

\* C1 as stated: whenever the cart resolved for a session key holds an item for
\* a product, add_to_cart for that key and product succeeds, creates no item,
\* leaves that item with its old quantity plus the supplied one and returns
\* that item's identifier.
C1_AddAccumulatesAlways ==
    [][resp'.op = "add_to_cart" =>
       \A session_id \in SessionKeys, product_id \in ProductIds, quantity \in Quantities :
         \A c \in DOMAIN carts, i \in DOMAIN items :
           ( /\ Resolves(session_id, c)
             /\ items[i].cart_id = c /\ items[i].product_id = product_id
             /\ add_to_cart(session_id, product_id, quantity) )
           => /\ resp'.status = 200
              /\ DOMAIN items' = DOMAIN items
              /\ items'[i].quantity = items[i].quantity + quantity
              /\ resp'.body.cart_item_id = i]_vars

\* C1 amended: the same for a product that is in the product store; an
\* add_to_cart that finds no item inserts one with the supplied quantity and
\* touches no other; and merged or inserted, the item it returns is then the
\* only one for (cart, product), so that successive adds of 1 count up
\* 1, 2, ... on one item.
C1_AddAccumulates ==
    [][resp'.op = "add_to_cart" =>
       \A session_id \in SessionKeys, product_id \in ProductIds, quantity \in Quantities :
         ( /\ product_id \in DOMAIN products
           /\ add_to_cart(session_id, product_id, quantity) )
         => /\ resp'.status = 200
            /\ \A c \in DOMAIN carts, i \in DOMAIN items :
                 (Resolves(session_id, c) /\ items[i].cart_id = c
                     /\ items[i].product_id = product_id)
                 => /\ DOMAIN items' = DOMAIN items
                    /\ items'[i].quantity = items[i].quantity + quantity
                    /\ resp'.body.cart_item_id = i
            /\ (\A i \in DOMAIN items :
                    ~(Resolves(session_id, items[i].cart_id)
                         /\ items[i].product_id = product_id))
               => /\ resp'.body.cart_item_id \notin DOMAIN items
                  /\ DOMAIN items' = DOMAIN items \cup {resp'.body.cart_item_id}
                  /\ items'[resp'.body.cart_item_id].quantity = quantity
                  /\ \A j \in DOMAIN items : items'[j] = items[j]
            /\ \A c \in DOMAIN carts' :
                 carts'[c].session_id = session_id
                 => {i \in DOMAIN items' : items'[i].cart_id = c
                                              /\ items'[i].product_id = product_id}
                    = {resp'.body.cart_item_id}]_vars

\* an add has merged into the item of a stored product and left it at quantity 2
C1_Witness ==
    /\ resp.op = "add_to_cart" /\ resp.status = 200 /\ resp.branch = "update"
    /\ resp.body.cart_item_id \in DOMAIN items
    /\ items[resp.body.cart_item_id].quantity = 2
    /\ items[resp.body.cart_item_id].product_id \in DOMAIN products

\* C2: there is at most one CartItem per (cart identifier, product identifier).
C2_OneItemPerCartAndProduct ==
    \A i, j \in DOMAIN items :
        (items[i].cart_id = items[j].cart_id /\ items[i].product_id = items[j].product_id)
        => i = j

\* a merge has happened while the same cart also holds an item of another product
C2_Witness ==
    /\ resp.op = "add_to_cart" /\ resp.status = 200 /\ resp.branch = "update"
    /\ \E i, j \in DOMAIN items :
         i # j /\ items[i].cart_id = items[j].cart_id /\ items[i].product_id # items[j].product_id

\* C3: add_to_cart with a product id that is not in the product store answers
\* 404 "Product not found" for every session key and quantity, and the set of
\* CartItems is the same after the call as before it.
C3_AddUnknownProduct ==
    [][resp'.op = "add_to_cart" =>
       \A session_id \in SessionKeys, product_id \in ProductIds, quantity \in Quantities :
         ( /\ product_id \notin DOMAIN products
           /\ add_to_cart(session_id, product_id, quantity) )
         => /\ resp'.status = 404
            /\ resp'.detail = "Product not found"
            /\ items' = items]_vars

\* the add was refused while the cart of some session key holds an item
C3_Witness ==
    /\ resp.op = "add_to_cart" /\ resp.status = 404
    /\ items # <<>>
    /\ \E p \in ProductIds : p \notin DOMAIN products

\* item_id is an item of the cart that the session key resolves to
InResolvedCart(session_id, item_id) ==
    /\ item_id \in DOMAIN items
    /\ \E c \in DOMAIN carts : Resolves(session_id, c) /\ items[item_id].cart_id = c

\* the item identifiers listed in the body of a get_cart response
Listed(body) == {body.items[k].id : k \in 1..Len(body.items)}

\* C4: update_cart_item with a quantity <= 0 on an item of the cart resolved
\* for the session key succeeds and deletes that item: the item is not in
\* cart_items afterwards (so it is not stored with that quantity), and a
\* get_cart that follows does not list it.
C4_NonPositiveQuantityDeletes ==
    [][ /\ resp'.op = "update_cart_item" =>
           \A session_id \in SessionKeys, item_id \in ItemIds, quantity \in Quantities :
             ( /\ quantity <= 0
               /\ InResolvedCart(session_id, item_id)
               /\ update_cart_item(session_id, item_id, quantity) )
             => /\ resp'.status = 200
                /\ item_id \notin DOMAIN items'
                /\ resp'.item_id = item_id
        /\ ( /\ resp.op = "update_cart_item" /\ resp.status = 200
              /\ resp.branch = "delete"
              /\ resp'.op = "get_cart" /\ resp'.status = 200 ) =>
           \A session_id \in SessionKeys :
             get_cart(session_id) => resp.item_id \notin Listed(resp'.body) ]_vars

\* an update to a quantity <= 0 has deleted an item and left another one stored
C4_Witness ==
    /\ resp.op = "update_cart_item" /\ resp.status = 200 /\ resp.branch = "delete"
    /\ resp.item_id \notin DOMAIN items
    /\ items # <<>>

\* C5: update_cart_item with a quantity > 0 on an item of the cart resolved
\* for the session key succeeds, sets that item's quantity to exactly the
\* supplied one, and leaves the item's identifier, product and cart, every
\* other CartItem, every Cart and every Product unchanged.
C5_PositiveQuantityOverwrites ==
    [][resp'.op = "update_cart_item" =>
       \A session_id \in SessionKeys, item_id \in ItemIds, quantity \in Quantities :
         ( /\ quantity > 0
           /\ InResolvedCart(session_id, item_id)
           /\ update_cart_item(session_id, item_id, quantity) )
         => /\ resp'.status = 200
            /\ DOMAIN items' = DOMAIN items
            /\ items'[item_id].quantity = quantity
            /\ items'[item_id].cart_id = items[item_id].cart_id
            /\ items'[item_id].product_id = items[item_id].product_id
            /\ \A j \in DOMAIN items : j # item_id => items'[j] = items[j]
            /\ carts' = carts
            /\ products' = products]_vars

\* a quantity was overwritten while another item, a second cart and the
\* products were there to be left alone
C5_Witness ==
    /\ resp.op = "update_cart_item" /\ resp.status = 200 /\ resp.branch = "set"
    /\ resp.item_id \in DOMAIN items
    /\ DOMAIN items # {resp.item_id}
    /\ DOMAIN carts = 1..2
    /\ products # <<>>

\* C6: in a get_cart response total_items is the sum of the quantities of the
\* items the response lists and total_price is the sum over those items of
\* quantity times the price the product store holds for the item's product;
\* the response of an empty cart has 0 for both.
C6_Totals ==
    (resp.op = "get_cart" /\ resp.status = 200)
    => LET listed == resp.body.items
           Q[k \in 0..Len(listed)] ==
               IF k = 0 THEN 0 ELSE Q[k - 1] + listed[k].quantity
           P[k \in 0..Len(listed)] ==
               IF k = 0 THEN 0
               ELSE P[k - 1] + listed[k].quantity * products[listed[k].product_id].price
       IN  /\ resp.body.total_items = Q[Len(listed)]
           /\ resp.body.total_price = P[Len(listed)]
           /\ listed = <<>> => (resp.body.total_items = 0 /\ resp.body.total_price = 0)

\* a cart was read that lists two items of differently priced products
C6_Witness ==
    /\ resp.op = "get_cart" /\ resp.status = 200
    /\ Len(resp.body.items) = 2
    /\ resp.body.items[1].product.price # resp.body.items[2].product.price
    /\ resp.body.items[1].quantity = 2
    /\ resp.body.total_price > resp.body.total_items

\* C7: when the response before was that of a successful product update and
\* the cart read next holds an item of that product, the read succeeds, shows
\* the updated price in the nested product, reports total_price as the sum of
\* quantity times the prices now stored, and changes no Cart and no CartItem.
C7_NewPriceOnNextRead ==
    [][\A session_id \in SessionKeys :
         ( /\ resp.op = "update_product" /\ resp.status = 200
           /\ resp'.op = "get_cart"
           /\ \E i \in DOMAIN items :
                /\ InResolvedCart(session_id, i)
                /\ items[i].product_id = resp.body.product[1].id
           /\ get_cart(session_id) )
         => /\ resp'.status = 200
            /\ \A k \in 1..Len(resp'.body.items) :
                 resp'.body.items[k].product_id = resp.body.product[1].id
                 => resp'.body.items[k].product.price = resp.body.product[1].price
            /\ resp'.body.total_price
                 = LET listed == resp'.body.items
                       P[k \in 0..Len(listed)] ==
                           IF k = 0 THEN 0
                           ELSE P[k - 1]
                                + listed[k].quantity * products[listed[k].product_id].price
                   IN  P[Len(listed)]
            /\ carts' = carts
            /\ items' = items]_vars

\* C8: get_cart for a key without a cart creates exactly one cart, whose
\* session_id is the key, and returns it with no items and zero totals; for a
\* key with a cart it creates none and returns an existing cart of that key;
\* a second get_cart right after one for the same key returns the same cart.
C8_GetOrCreate ==
    [][\A session_id \in SessionKeys :
         (resp'.op = "get_cart" /\ get_cart(session_id))
         => IF \A c \in DOMAIN carts : carts[c].session_id # session_id
            THEN /\ resp'.status = 200
                 /\ \E c \in DOMAIN carts' \ DOMAIN carts :
                      /\ DOMAIN carts' = DOMAIN carts \cup {c}
                      /\ carts'[c].session_id = session_id
                      /\ resp'.body.cart_id = c
                 /\ \A c \in DOMAIN carts : carts'[c] = carts[c]
                 /\ resp'.body.session_id = session_id
                 /\ resp'.body.items = <<>>
                 /\ resp'.body.total_items = 0
                 /\ resp'.body.total_price = 0
            ELSE /\ carts' = carts
                 /\ resp'.status = 200
                 /\ Resolves(session_id, resp'.body.cart_id)
                 /\ (resp.op = "get_cart" /\ resp.status = 200
                        /\ resp.body.session_id = session_id)
                    => resp'.body.cart_id = resp.body.cart_id]_vars

\* C9: get_cart has no failure outcome: its response is always a 200.
C9_GetCartNeverFails ==
    resp.op = "get_cart" => resp.status = 200

\* C10: update_cart_item and remove_from_cart answer 404 when the session key
\* has no cart and when the item is not an item of the cart the key resolves
\* to (an item of another key's cart too); such a request creates no Cart and
\* changes no Cart, CartItem or Product.
C10_NotFoundChangesNothing ==
    [][resp'.op \in {"update_cart_item", "remove_from_cart"} =>
       \A session_id \in SessionKeys, item_id \in ItemIds :
         ~InResolvedCart(session_id, item_id)
         => /\ \A quantity \in Quantities :
                 ( /\ resp'.op = "update_cart_item"
                   /\ update_cart_item(session_id, item_id, quantity) )
                 => /\ resp'.status = 404
                    /\ resp'.detail = IF \E c \in DOMAIN carts : Resolves(session_id, c)
                                      THEN "Cart item not found" ELSE "Cart not found"
                    /\ UNCHANGED <<products, carts, items>>
            /\ ( /\ resp'.op = "remove_from_cart"
                 /\ remove_from_cart(session_id, item_id) )
               => /\ resp'.status = 404
                  /\ resp'.detail = IF \E c \in DOMAIN carts : Resolves(session_id, c)
                                    THEN "Cart item not found" ELSE "Cart not found"
                  /\ UNCHANGED <<products, carts, items>>]_vars

\* every item identifier is in use and all items are in one cart, so the
\* "Cart item not found" went to a request of the other key's cart
C10_Witness ==
    /\ resp.op \in {"update_cart_item", "remove_from_cart"}
    /\ resp.status = 404 /\ resp.detail = "Cart item not found"
    /\ DOMAIN items = ItemIds
    /\ \E c \in DOMAIN carts : \A i \in DOMAIN items : items[i].cart_id = c
    /\ DOMAIN carts = 1..2

\* C11 as stated: remove_from_cart on an item of the resolved cart deletes
\* that item whatever its quantity and leaves every other CartItem and every
\* Cart in place; the next get_cart does not list it, and whatever request
\* is served afterwards its identifier names no CartItem, so that every
\* further update_cart_item or remove_from_cart on it answers 404.
C11_RemovedForGood ==
    [][/\ resp'.op = "remove_from_cart" =>
            \A session_id \in SessionKeys, item_id \in ItemIds :
              ( /\ InResolvedCart(session_id, item_id)
                /\ remove_from_cart(session_id, item_id) )
              => /\ resp'.status = 200
                 /\ DOMAIN items' = DOMAIN items \ {item_id}
                 /\ \A j \in DOMAIN items' : items'[j] = items[j]
                 /\ carts' = carts
       /\ ( /\ resp.op = "remove_from_cart" /\ resp.status = 200
            /\ resp'.op = "get_cart" /\ resp'.status = 200 )
          => resp.item_id \notin Listed(resp'.body)
       /\ (resp.op = "remove_from_cart" /\ resp.status = 200)
          => resp.item_id \notin DOMAIN items']_vars

\* C11 amended: the same deletion; a update_cart_item or remove_from_cart on
\* the removed identifier answers 404 and changes nothing as long as no
\* add_to_cart has been served since: only add_to_cart brings an identifier
\* into cart_items, and it can give a new item the identifier of the
\* removed one.
C11_RemoveDeletes ==
    [][/\ resp'.op = "remove_from_cart" =>
            \A session_id \in SessionKeys, item_id \in ItemIds :
              ( /\ InResolvedCart(session_id, item_id)
                /\ remove_from_cart(session_id, item_id) )
              => /\ resp'.status = 200
                 /\ DOMAIN items' = DOMAIN items \ {item_id}
                 /\ \A j \in DOMAIN items' : items'[j] = items[j]
                 /\ carts' = carts
       /\ ( /\ resp.op = "remove_from_cart" /\ resp.status = 200
            /\ resp'.op = "get_cart" /\ resp'.status = 200 )
          => resp.item_id \notin Listed(resp'.body)
       /\ ( /\ resp.op = "remove_from_cart" /\ resp.status = 200
            /\ resp'.op \in {"update_cart_item", "remove_from_cart"} )
          => \A session_id \in SessionKeys :
               /\ \A quantity \in Quantities :
                    update_cart_item(session_id, resp.item_id, quantity)
                    => resp'.status = 404 /\ UNCHANGED <<products, carts, items>>
               /\ remove_from_cart(session_id, resp.item_id)
                  => resp'.status = 404 /\ UNCHANGED <<products, carts, items>>
       /\ resp'.op # "add_to_cart" => DOMAIN items' \subseteq DOMAIN items]_vars

\* an item was removed and an item of quantity MaxQty is still in the store
C11_Witness ==
    /\ resp.op = "remove_from_cart" /\ resp.status = 200
    /\ resp.item_id \notin DOMAIN items
    /\ \E j \in DOMAIN items : items[j].quantity = MaxQty

\* C12: update_product on a product of the store answers 200, changes
\* exactly the fields set in the payload to the values of the payload and
\* leaves every other field, the identifier and every other product as they
\* were; on an identifier that is not in the store it answers 404 and
\* changes nothing.
C12_UpdateChangesSuppliedFields ==
    [][resp'.op = "update_product" =>
       \A product_id \in ProductIds, product_update \in ProductUpdates :
         update_product(product_id, product_update)
         => IF product_id \in DOMAIN products
            THEN /\ resp'.status = 200
                 /\ DOMAIN products' = DOMAIN products
                 /\ \A f \in DOMAIN product_update :
                      products'[product_id][f] = product_update[f]
                 /\ \A f \in ProductFields \ DOMAIN product_update :
                      products'[product_id][f] = products[product_id][f]
                 /\ \A other \in DOMAIN products \ {product_id} :
                      products'[other] = products[other]
            ELSE /\ resp'.status = 404
                 /\ resp'.detail = "Product not found"
                 /\ products' = products]_vars

\* C13: delete_product on a product of the store answers 200 also when
\* cart items reference the product, takes the product out of the store
\* and leaves carts and cart_items as they were; a get_product on that
\* identifier served next answers 404.
C13_DeleteProductUnconditional ==
    [][/\ resp'.op = "delete_product" =>
            \A product_id \in ProductIds :
              (product_id \in DOMAIN products /\ delete_product(product_id))
              => /\ resp'.status = 200
                 /\ DOMAIN products' = DOMAIN products \ {product_id}
                 /\ carts' = carts
                 /\ items' = items
       /\ ( /\ resp.op = "delete_product" /\ resp.status = 200
            /\ resp'.op = "get_product" )
          => \A product_id \in ProductIds :
               (product_id = resp.item_id /\ get_product(product_id))
               => resp'.status = 404 /\ resp'.detail = "Product not found"]_vars

\* the product just deleted is still referenced by a cart item
C13_Witness ==
    /\ resp.op = "delete_product" /\ resp.status = 200
    /\ resp.item_id \notin DOMAIN products
    /\ \E i \in DOMAIN items : items[i].product_id = resp.item_id

\* C14: deleting a cart deletes the cart, every cart item of that cart and
\* no cart item of any other cart; the items that stay are unchanged.
C14_CartDeleteCascades ==
    [][resp'.op = "delete_cart" =>
       \A cart_id \in CartIds :
         delete_cart(cart_id)
         => /\ DOMAIN carts' = DOMAIN carts \ {cart_id}
            /\ \A c \in DOMAIN carts' : carts'[c] = carts[c]
            /\ DOMAIN items' = {i \in DOMAIN items : items[i].cart_id # cart_id}
            /\ \A i \in DOMAIN items' : items'[i] = items[i]]_vars

\* under SpecStore items only go with their cart: item 1 went with the cart
\* deleted last or before, item 2 of another cart is still stored
C14_Witness ==
    /\ resp.op = "delete_cart"
    /\ DOMAIN items = {2}
    /\ items[2].cart_id \in DOMAIN carts
    /\ items[2].cart_id # resp.item_id

\* C15: every add_to_cart that answers 200 on a cart that was there before
\* the request, at a time later than the cart's updated_at, leaves the
\* cart's updated_at later than it was, in the increment branch and in the
\* insert branch.
C15_AddAdvancesCartTimestamp ==
    [][(resp'.op = "add_to_cart" /\ resp'.status = 200) =>
       \A session_id \in SessionKeys, product_id \in ProductIds, quantity \in Quantities :
         ( /\ CartsOf(session_id) # {}
           /\ carts[FirstCart(session_id)].updated_at < now
           /\ add_to_cart(session_id, product_id, quantity) )
         => carts'[FirstCart(session_id)].updated_at
              > carts[FirstCart(session_id)].updated_at]_vars

\* C16: while more than one cart has the session key, get_cart,
\* add_to_cart, update_cart_item and remove_from_cart, served one at a time,
\* all go on with the first cart of the key in retrieval order: none
\* creates, changes or deletes a cart, get_cart answers with that cart and
\* its items, and the items a request adds, changes or deletes are items of
\* that cart, an item of a later cart of the key being answered 404.
C16_FirstCartOfDuplicates ==
    [][\A session_id \in RaceKeys :
         Cardinality(CartsOf(session_id)) > 1 =>
           LET first == Min(CartsOf(session_id))
               Touched == {i \in DOMAIN items \cup DOMAIN items' :
                             \/ i \notin DOMAIN items
                             \/ i \notin DOMAIN items'
                             \/ items'[i] # items[i]}
               OfFirst(i) == IF i \in DOMAIN items THEN items[i].cart_id = first
                             ELSE items'[i].cart_id = first
           IN  /\ get_cart(session_id)
                  => /\ carts' = carts /\ items' = items
                     /\ resp'.status = 200
                        => /\ resp'.body.cart_id = first
                           /\ Listed(resp'.body) = CartItemIds(first)
               /\ \A product_id \in RaceProductIds, quantity \in RaceQuantities :
                    add_to_cart(session_id, product_id, quantity)
                    => /\ carts' = carts
                       /\ \A i \in Touched : OfFirst(i)
                       /\ resp'.status = 200 => items'[resp'.item_id].cart_id = first
               /\ \A item_id \in ItemIds :
                    /\ \A quantity \in RaceQuantities :
                         update_cart_item(session_id, item_id, quantity)
                         => /\ carts' = carts
                            /\ \A i \in Touched : OfFirst(i)
                            /\ resp'.status = IF item_id \in CartItemIds(first)
                                              THEN 200 ELSE 404
                    /\ remove_from_cart(session_id, item_id)
                       => /\ carts' = carts
                          /\ \A i \in Touched : OfFirst(i)
                          /\ resp'.status = IF item_id \in CartItemIds(first)
                                            THEN 200 ELSE 404]_vars

\* two carts have the key, the second holds an item, and the request served
\* last was answered 404 for it
C16_Witness ==
    /\ CartsOf("s1") = {1, 2}
    /\ \E i \in DOMAIN items : items[i].cart_id = 2
    /\ \E i \in DOMAIN items : items[i].cart_id = 1
    /\ resp.op \in {"update_cart_item", "remove_from_cart"}
    /\ resp.status = 404 /\ resp.detail = "Cart item not found"

\* C19: when the statements of concurrent add_to_cart requests interleave,
\* the commit of a request acts on what its own select of the item found:
\* with an item found it leaves on that row the quantity read then plus the
\* supplied one, whatever the row's quantity is by now, so that an increment
\* committed in between is lost; with none found it inserts a new item into
\* its cart even when the cart holds an item for the product by now.
C19_CommitActsOnStaleRead ==
    [][\A p \in Procs :
         add_to_cart_commit(p)
         => LET r == procs[p]
            IN  IF r.item_id = 0
                THEN /\ DOMAIN items' = DOMAIN items \cup {NextId(items)}
                     /\ NextId(items) \notin DOMAIN items
                     /\ items'[NextId(items)] = [cart_id |-> r.cart_id,
                                                 product_id |-> r.product_id,
                                                 quantity |-> r.quantity]
                     /\ \A i \in DOMAIN items : items'[i] = items[i]
                ELSE IF r.item_id \in DOMAIN items
                THEN /\ DOMAIN items' = DOMAIN items
                     /\ items'[r.item_id].quantity = r.seen + r.quantity
                     /\ \A i \in DOMAIN items \ {r.item_id} : items'[i] = items[i]
                ELSE items' = items]_vars

\* both requests are answered and one cart holds two items for one product
C19_Witness ==
    /\ \A p \in Procs : Free(p)
    /\ resp.op = "add_to_cart" /\ resp.status = 200 /\ resp.branch = "insert"
    /\ \E i, j \in DOMAIN items :
         /\ i # j
         /\ items[i].cart_id = items[j].cart_id
         /\ items[i].product_id = items[j].product_id

\* the other outcome of C19: a request is about to commit an increment it
\* computed from a quantity that an increment committed since has replaced
C19_LostUpdateAhead ==
    \E p \in Procs :
      /\ procs[p].pc = "add_to_cart_commit"
      /\ procs[p].item_id \in DOMAIN items
      /\ procs[p].quantity > 0
      /\ resp.op = "add_to_cart" /\ resp.branch = "update"
      /\ resp.item_id = procs[p].item_id
      /\ items[procs[p].item_id].quantity > procs[p].seen
      /\ procs[p].seen + procs[p].quantity \in Quantities

\* C20: a cart-resolving request whose select found no cart for its key
\* goes on to insert one, and the store accepts the insert whatever carts it
\* holds by then, leaving them as they are; two such requests for one key
\* leave two carts with that key.
C20_CreateAfterStaleLookup ==
    [][\A p \in Procs :
         (get_cart_create(p) \/ add_to_cart_create(p))
         => /\ NextId(carts) \notin DOMAIN carts
            /\ DOMAIN carts' = DOMAIN carts \cup {NextId(carts)}
            /\ carts'[NextId(carts)].session_id = procs[p].session_id
            /\ \A c \in DOMAIN carts : carts'[c] = carts[c]]_vars

\* two carts share one session key
C20_Witness ==
    \E c, d \in DOMAIN carts : c # d /\ carts[c].session_id = carts[d].session_id

\* the add_to_cart requests for a key and a product that have been served
Served(session_id, product_id) ==
    {p \in Procs : /\ procs[p].pc = "answered"
                   /\ procs[p].session_id = session_id
                   /\ procs[p].product_id = product_id}

\* C18: when every add_to_cart request is served as one step, then in
\* whatever order the requests for one key and one product were served, the
\* key has exactly one cart, the cart holds exactly one item for the product
\* and its quantity is the sum of the quantities of the requests served:
\* N with N requests of quantity 1.
C18_AtomicAddsConverge ==
    \A session_id \in SessionKeys, product_id \in ProductIds :
      LET served == SortedSeq(Served(session_id, product_id))
      IN  served # <<>> =>
            /\ Cardinality(CartsOf(session_id)) = 1
            /\ \E i \in DOMAIN items :
                 /\ {j \in DOMAIN items : /\ items[j].cart_id = Min(CartsOf(session_id))
                                          /\ items[j].product_id = product_id} = {i}
                 /\ items[i].quantity =
                      sum([k \in 1..Len(served) |-> procs[served[k]].quantity])

\* every request was an add of quantity 1 for one key and one product, all
\* are served, and the one item of the one cart has quantity NumProcs
C18_Witness ==
    /\ \A p \in Procs : /\ procs[p].pc = "answered"
                        /\ procs[p].session_id = "s1"
                        /\ procs[p].product_id = 1
                        /\ procs[p].quantity = 1
    /\ Cardinality(DOMAIN carts) = 1
    /\ \E i \in DOMAIN items : DOMAIN items = {i} /\ items[i].quantity = NumProcs

\* the rows of cart_items for a product in the carts of a key, after a step
ItemsFor(session_id, product_id) ==
    {i \in DOMAIN items' : /\ items'[i].product_id = product_id
                           /\ items'[i].cart_id \in DOMAIN carts'
                           /\ carts'[items'[i].cart_id].session_id = session_id}

\* C17: a get_cart, update_cart_item or remove_from_cart request served a
\* second time with the same arguments, right after the first, leaves
\* products, carts and cart_items as the first left them; an add_to_cart
\* with a quantity n > 0 that was answered 200 and is served a second time
\* is answered 200 again, for the same item, and leaves its quantity n
\* higher than the first did.
C17_RetrySafety ==
    [][\A p \in Procs :
         request_retry(p)
         => /\ procs[p].op \in {"get_cart", "update_cart_item", "remove_from_cart"}
               => UNCHANGED <<products, carts, items>>
            /\ ( /\ procs[p].op = "add_to_cart"
                 /\ procs[p].quantity > 0
                 /\ resp.status = 200 )
               => /\ resp'.status = 200
                  /\ resp'.item_id = resp.item_id
                  /\ DOMAIN items' = DOMAIN items
                  /\ items'[resp.item_id].quantity
                       = items[resp.item_id].quantity + procs[p].quantity
                  /\ ItemsFor(procs[p].session_id, procs[p].product_id) = {resp.item_id}]_vars

\* an update_cart_item that set MaxQty has been served a second time and
\* answered 200 again, the item still at MaxQty
C17_Witness ==
    \E p \in Procs :
      /\ procs[p].pc = "retried"
      /\ procs[p].op = "update_cart_item"
      /\ procs[p].quantity = MaxQty
      /\ resp.op = "update_cart_item" /\ resp.status = 200
      /\ procs[p].item_id \in DOMAIN items
      /\ items[procs[p].item_id].quantity = MaxQty

\* C21: add_to_cart for a key that has no cart and a product that is not in
\* the store answers 404 and leaves one new cart with that key and no item
\* in it; no request takes a cart away or changes one, and as long as the
\* cart of a key holds no item update_cart_item and remove_from_cart for the
\* key answer 404 "Cart item not found", not "Cart not found".
C21_CartSurvivesFailedAdd ==
    [][/\ resp'.op = "add_to_cart" =>
            \A session_id \in SessionKeys, product_id \in ProductIds, quantity \in Quantities :
              ( /\ CartsOf(session_id) = {}
                /\ product_id \notin DOMAIN products
                /\ add_to_cart(session_id, product_id, quantity) )
              => /\ resp'.status = 404 /\ resp'.detail = "Product not found"
                 /\ DOMAIN carts' = DOMAIN carts \cup {NextId(carts)}
                 /\ NextId(carts) \notin DOMAIN carts
                 /\ carts'[NextId(carts)].session_id = session_id
                 /\ items' = items
                 /\ \A i \in DOMAIN items' : items'[i].cart_id # NextId(carts)
       /\ \A c \in DOMAIN carts : c \in DOMAIN carts' /\ carts'[c] = carts[c]
       /\ resp'.op \in {"update_cart_item", "remove_from_cart"} =>
            \A session_id \in SessionKeys :
              (CartsOf(session_id) # {} /\ CartItemIds(FirstCart(session_id)) = {})
              => \A item_id \in ItemIds :
                   ( \/ \E quantity \in Quantities :
                          update_cart_item(session_id, item_id, quantity)
                     \/ remove_from_cart(session_id, item_id) )
                   => resp'.status = 404 /\ resp'.detail = "Cart item not found"]_vars

\* the add that was answered 404 had created the cart, which is stored
\* without items
C21_Witness ==
    /\ resp.op = "add_to_cart" /\ resp.status = 404 /\ resp.branch = "create"
    /\ \E c \in DOMAIN carts : CartItemIds(c) = {}

KeyedBy(session_id) ==
    \/ /\ resp'.op = "get_cart"
       /\ get_cart(session_id)
    \/ /\ resp'.op = "add_to_cart"
       /\ \E product_id \in ProductIds, quantity \in Quantities :
            add_to_cart(session_id, product_id, quantity)
    \/ /\ resp'.op = "update_cart_item"
       /\ \E item_id \in ItemIds, quantity \in Quantities :
            update_cart_item(session_id, item_id, quantity)
    \/ /\ resp'.op = "remove_from_cart"
       /\ \E item_id \in ItemIds : remove_from_cart(session_id, item_id)

\* the step leaves the cart of the session key as it is: the same cart, the
\* same items, each unchanged, and, when the step wrote to cart_items or
\* products at all, the same answer to a get_cart (the same item list and
\* totals, or the same failure)
Untouched(session_id) ==
    /\ CartsOf(session_id)' = CartsOf(session_id)
    /\ \A c \in CartsOf(session_id) :
         /\ carts'[c] = carts[c]
         /\ CartItemIds(c)' = CartItemIds(c)
         /\ \A i \in CartItemIds(c) : items'[i] = items[i]
         /\ \/ items' = items /\ products' = products
            \/ /\ HasDanglingItem(c)' = HasDanglingItem(c)
               /\ ~HasDanglingItem(c)
                  => /\ CartItemDTOs(c)' = CartItemDTOs(c)
                     /\ TotalItems(c)' = TotalItems(c)
                     /\ TotalPrice(c)' = TotalPrice(c)

\* C23: every session key has at most one cart, and a get_cart, add_to_cart,
\* update_cart_item or remove_from_cart keyed by one key, whatever item or
\* product it names, leaves the cart of every other key untouched.
C23_SessionIsolation ==
    [][resp'.op \in {"get_cart", "add_to_cart", "update_cart_item", "remove_from_cart"} =>
       \A B \in SessionKeys :
         /\ Cardinality(CartsOf(B)) <= 1
         /\ \/ Untouched(B)
            \/ \A A \in SessionKeys \ {B} : ~KeyedBy(A)]_vars

\* an add has just raised the quantity of an item while another cart holds
\* an item too
C23_Witness ==
    /\ resp.op = "add_to_cart" /\ resp.status = 200 /\ resp.branch = "update"
    /\ \E j \in DOMAIN items : items[j].cart_id # items[resp.item_id].cart_id

====
